---- MODULE Spec2Model ----
(***************************************************************************)
(* Model of PyInstaller/building/imphook.py: the hook cache (HooksCache),  *)
(* the additional-files cache (AdditionalFilesCache), the hook proxy       *)
(* (FakeModule), one hook pass (ImportHook.update_dependencies) and the    *)
(* expansion of hook datas (_format_hook_datas).                           *)
(*                                                                         *)
(* Python strings that the code takes apart (startswith, slicing,          *)
(* basename) are sequences of one-character strings.                       *)
(***************************************************************************)
EXTENDS Integers, Sequences, FiniteSets, TLC

VARIABLES
    HooksCache_data,            \* HooksCache.data: module name -> hook path
    fs,                         \* directory listing of each hooks directory
    cache_ops,                  \* history: the last two calls made on the HooksCache
    cache_prev,                 \* history: HooksCache.data before the last call
    cache_n,                    \* history: the number of calls made
    cache_log,                  \* history: every directory loaded and every removal, in order
    AdditionalFilesCache_data,  \* AdditionalFilesCache.data
    files_own,                  \* history: what the last add() of each module name passed
    files_ever,                 \* history: every pair ever stored under each module name
    files_prev,                 \* history: AdditionalFilesCache.data before the last add()
    files_last,                 \* history: the module name of the last add()
    files_n,                    \* history: the number of add() calls made
    nodes,                      \* mod_graph: the identifiers of its nodes
    edges,                      \* mod_graph: its references <<from, to>>
    nodeinfo,                   \* mod_graph: code and filename of the retargeted nodes
    name,                       \* ImportHook._name
    module,                     \* ImportHook._module: the hook attributes read so far
    absent,                     \* the hook attributes hasattr() found missing
    binaries,                   \* ImportHook.binaries
    datas,                      \* ImportHook.datas
    mod,                        \* the FakeModule handed to hook(mod)
    pc,                         \* position of update_dependencies
    idx,                        \* position of the loop of the current step
    last,                       \* history: the last step taken and the graph before it
    step0,                      \* history: the graph when the current step began
    pass0                       \* history: the caches when the pass began, and the
                                \* references each step of the pass added or removed

cacheVars == <<HooksCache_data, fs, cache_ops, cache_prev, cache_n, cache_log>>
filesVars == <<AdditionalFilesCache_data, files_own, files_ever, files_prev,
               files_last, files_n>>
graphVars == <<nodes, edges, nodeinfo>>
hookVars == <<name, module, absent, binaries, datas, mod, pc, idx, last, step0, pass0>>
vars == <<cacheVars, filesVars, graphVars, hookVars>>

(***************************************************************************)
(* Strings                                                                 *)
(***************************************************************************)
\* str.startswith
StartsWith(s, p) == Len(p) <= Len(s) /\ SubSeq(s, 1, Len(p)) = p

\* str.endswith
EndsWith(s, p) == Len(p) <= Len(s) /\ SubSeq(s, Len(s) - Len(p) + 1, Len(s)) = p

\* the elements of a sequence
Range(s) == {s[i] : i \in DOMAIN s}

\* sequences over S of length at most n
SeqsUpTo(S, n) == UNION {[1..k -> S] : k \in 0..n}

(***************************************************************************)
(* HooksCache                                                              *)
(***************************************************************************)
MaxCacheOps == 3
MaxPaths == 2

hook_a_py == <<"h","o","o","k","-","a",".","p","y">>
hook_b_py == <<"h","o","o","k","-","b",".","p","y">>
rthook_a_py == <<"r","t","h","o","o","k","-","a",".","p","y">>
hook_a_pyc == <<"h","o","o","k","-","a",".","p","y","c">>
HookFiles == {hook_a_py, hook_b_py}
\* files of every hooks directory that are no hooks
OtherFiles == {rthook_a_py, hook_a_pyc}
MaxNames == 2
HooksDirs == {"hooks", "custom"}
\* the names remove() is called with: one that has a hook file, one that has none
ModNames == {<<"a">>, <<"q">>}

\* glob.glob(os.path.join(path, 'hook-*.py')): the files of the directory that match
GlobHooks(listing, path) ==
    {f \in listing[path] :
        /\ Len(f) >= 8
        /\ StartsWith(f, <<"h","o","o","k","-">>)
        /\ EndsWith(f, <<".","p","y">>)}

\* os.path.basename(f)[5:-3]
ModnameOf(f) == SubSeq(f, 6, Len(f) - 3)

\* os.path.abspath(f) of a file of directory path
AbsPath(path, f) == <<path, f>>

LoadFileList_KeepFirst(data, listing, path) ==
    LET files == GlobHooks(listing, path)
        names == {ModnameOf(f) : f \in files}
    IN  [m \in DOMAIN data \cup names |->
            IF m \in DOMAIN data THEN data[m]
            ELSE AbsPath(path, CHOOSE f \in files : ModnameOf(f) = m)]

LoadFileList_Append(data, listing, path) ==
    LET files == GlobHooks(listing, path)
        names == {ModnameOf(f) : f \in files}
        new(m) == AbsPath(path, CHOOSE f \in files : ModnameOf(f) = m)
    IN  [m \in DOMAIN data \cup names |->
            IF m \in names
            THEN IF m \in DOMAIN data THEN <<data[m], new(m)>> ELSE new(m)
            ELSE data[m]]

\* HooksCache._load_file_list: self.data[modname] = abspath(f) for every match.
\* Two files of one directory never share a basename, so the order of the loop
\* does not matter.
LoadFileList(data, listing, path) ==
    LET files == GlobHooks(listing, path)
        names == {ModnameOf(f) : f \in files}
    IN  [m \in DOMAIN data \cup names |->
            IF m \in names
            THEN AbsPath(path, CHOOSE f \in files : ModnameOf(f) = m)
            ELSE data[m]]

\* HooksCache.add_custom_paths: _load_file_list for each path, in order
RECURSIVE AddCustomPathsFrom(_, _, _)
AddCustomPathsFrom(data, listing, paths) ==
    IF paths = <<>> THEN data
    ELSE AddCustomPathsFrom(LoadFileList(data, listing, Head(paths)), listing, Tail(paths))

RemoveNames_All(data, names) ==
    IF Range(names) \cap DOMAIN data = {} THEN data ELSE <<>>

RemoveRaises_Unguarded(data, names) == \E n \in Range(names) : n \notin DOMAIN data

\* del self.data[n] stands under 'if n in self.data': no KeyError leaves remove
RemoveRaises(data, names) == FALSE

\* HooksCache.remove: names = set(names); del self.data[n] for n in self.data
RemoveNames(data, names) ==
    LET gone == Range(names)
    IN  [m \in DOMAIN data \ gone |-> data[m]]

\* HooksCache.__init__(hooks_path): an empty dict, then _load_file_list
CacheInit ==
    /\ fs \in {[d \in HooksDirs |-> h[d] \cup OtherFiles] : h \in [HooksDirs -> SUBSET HookFiles]}
    /\ HooksCache_data = LoadFileList(<<>>, fs, "hooks")
    /\ cache_ops = <<[op |-> "load", arg |-> "hooks"]>>
    /\ cache_prev = <<>>
    /\ cache_n = 1
    /\ cache_log = <<[op |-> "load", arg |-> "hooks"]>>

CacheIdle ==
    /\ fs = [d \in HooksDirs |-> {}]
    /\ HooksCache_data = <<>>
    /\ cache_ops = <<>>
    /\ cache_prev = <<>>
    /\ cache_n = 0
    /\ cache_log = <<>>

\* the last call made and the one before it
LastTwo(ops, call) == IF ops = <<>> THEN <<call>> ELSE <<ops[Len(ops)], call>>

\* one further _load_file_list(path) call (add_custom_paths with one path)
load_file_list ==
    /\ cache_n < MaxCacheOps
    /\ \E path \in HooksDirs :
        /\ HooksCache_data' = LoadFileList(HooksCache_data, fs, path)
        /\ cache_ops' = LastTwo(cache_ops, [op |-> "load", arg |-> path])
        /\ cache_log' = Append(cache_log, [op |-> "load", arg |-> path])
    /\ cache_prev' = HooksCache_data
    /\ cache_n' = cache_n + 1
    /\ UNCHANGED <<fs, filesVars, graphVars, hookVars>>

add_custom_paths ==
    /\ cache_n < MaxCacheOps
    /\ \E paths \in SeqsUpTo(HooksDirs, MaxPaths) :
        /\ HooksCache_data' = AddCustomPathsFrom(HooksCache_data, fs, paths)
        /\ cache_ops' = LastTwo(cache_ops, [op |-> "extend", arg |-> paths])
        /\ cache_log' = cache_log \o [i \in DOMAIN paths |-> [op |-> "load", arg |-> paths[i]]]
    /\ cache_prev' = HooksCache_data
    /\ cache_n' = cache_n + 1
    /\ UNCHANGED <<fs, filesVars, graphVars, hookVars>>

remove ==
    /\ cache_n < MaxCacheOps
    /\ \E names \in SeqsUpTo(ModNames, MaxNames) :
        /\ HooksCache_data' = RemoveNames(HooksCache_data, names)
        /\ cache_ops' = LastTwo(cache_ops, [op |-> "remove", arg |-> names,
                                             raised |-> RemoveRaises(HooksCache_data, names)])
        /\ cache_log' = Append(cache_log, [op |-> "remove", arg |-> names])
    /\ cache_prev' = HooksCache_data
    /\ cache_n' = cache_n + 1
    /\ UNCHANGED <<fs, filesVars, graphVars, hookVars>>

LoadCall(path) == [op |-> "load", arg |-> path]

\* C10: a _load_file_list of a directory right after a _load_file_list of the
\* same directory leaves the mapping exactly as the first one left it, and
\* add_custom_paths([d, d]) gives what one _load_file_list(d) gives.
C10_CatalogIdempotence ==
    /\ \A d \in HooksDirs :
          cache_ops = <<LoadCall(d), LoadCall(d)>> => HooksCache_data = cache_prev
    /\ \A d \in HooksDirs :
          (cache_ops # <<>> /\ cache_ops[Len(cache_ops)] = [op |-> "extend", arg |-> <<d, d>>])
          => HooksCache_data = LoadFileList(cache_prev, fs, d)

\* the same directory loaded twice in a row, with hooks in it, one of them
\* for a name that another directory had given before
C10_Witness ==
    /\ cache_ops = <<LoadCall("custom"), LoadCall("custom")>>
    /\ GlobHooks(fs, "custom") # {}
    /\ \E m \in DOMAIN HooksCache_data : HooksCache_data[m][1] = "hooks"
    /\ \E m \in DOMAIN HooksCache_data : HooksCache_data[m][1] = "custom"

\* the last call made on the HooksCache
LastCall == cache_ops[Len(cache_ops)]

\* C11: remove(names), for any list of names, with duplicates and unknown names,
\* raises nothing, removes exactly the entries whose name is in the list and
\* leaves every other entry as it was; when no name of the list is known the
\* mapping is unchanged.
C11_EvictionSafety ==
    (cache_ops # <<>> /\ LastCall.op = "remove") =>
        /\ ~LastCall.raised
        /\ DOMAIN HooksCache_data = DOMAIN cache_prev \ {LastCall.arg[i] : i \in DOMAIN LastCall.arg}
        /\ \A m \in DOMAIN HooksCache_data : HooksCache_data[m] = cache_prev[m]
        /\ (\A i \in DOMAIN LastCall.arg : LastCall.arg[i] \notin DOMAIN cache_prev)
              => HooksCache_data = cache_prev

\* a known name was removed by a list that names it twice, another entry stayed
C11_Witness ==
    /\ cache_ops # <<>> /\ LastCall.op = "remove"
    /\ Len(LastCall.arg) = 2 /\ LastCall.arg[1] = LastCall.arg[2]
    /\ LastCall.arg[1] \in DOMAIN cache_prev
    /\ DOMAIN HooksCache_data # {}

\* the name of the hook file of module name m
HookFileOf(m) == <<"h","o","o","k","-">> \o m \o <<".","p","y">>

\* the positions of cache_log, after the last removal of m, at which a directory
\* that holds a hook file of m was loaded
LoadsSinceRemoval(m) ==
    LET removals == {i \in DOMAIN cache_log :
                        /\ cache_log[i].op = "remove"
                        /\ \E j \in DOMAIN cache_log[i].arg : cache_log[i].arg[j] = m}
    IN  {i \in DOMAIN cache_log :
            /\ cache_log[i].op = "load"
            /\ HookFileOf(m) \in fs[cache_log[i].arg]
            /\ \A r \in removals : r < i}

\* every module name a call was made with, a hook file exists for, or the
\* HooksCache holds
KnownNames == ModNames \cup {ModnameOf(f) : f \in HookFiles} \cup DOMAIN HooksCache_data

Latest(S) == CHOOSE i \in S : \A j \in S : j <= i

\* C12: after any sequence of _load_file_list, add_custom_paths and remove
\* calls, a module name is in the HooksCache exactly when some directory loaded
\* since its last removal holds a hook file for it, and it maps to the file of
\* the latest such directory.
C12_LastRootWins ==
    \A m \in KnownNames :
        IF LoadsSinceRemoval(m) = {} THEN m \notin DOMAIN HooksCache_data
        ELSE /\ m \in DOMAIN HooksCache_data
             /\ HooksCache_data[m] =
                    AbsPath(cache_log[Latest(LoadsSinceRemoval(m))].arg, HookFileOf(m))

\* a name that two loaded directories hold a hook for, and a name that was removed
\* and loaded again
C12_Witness ==
    /\ \E m \in KnownNames : Cardinality({cache_log[i].arg : i \in LoadsSinceRemoval(m)}) = 2
    /\ \E m \in KnownNames :
          /\ LoadsSinceRemoval(m) # {}
          /\ \E i \in DOMAIN cache_log : i < Latest(LoadsSinceRemoval(m))
                                            /\ cache_log[i].op = "remove"
                                            /\ m \in {cache_log[i].arg[j] : j \in DOMAIN cache_log[i].arg}

(***************************************************************************)
(* AdditionalFilesCache                                                    *)
(***************************************************************************)
MaxAdds == 3

\* (target, source) pairs: what ImportHook.binaries and ImportHook.datas hold
TocPairs == {<< <<"t1">>, <<"s1">> >>, << <<"t2">>, <<"s2">> >>}
Packages == {<<"a">>, <<"b">>}

CacheAdd_Merge(data, modname, bins, dats) ==
    [m \in DOMAIN data \cup {modname} |->
        IF m = modname THEN [binaries |-> bins, datas |-> dats]
        ELSE [binaries |-> data[m].binaries \cup bins, datas |-> data[m].datas]]

CacheAdd_Clear(data, modname, bins, dats) ==
    [m \in {modname} |-> [binaries |-> bins, datas |-> dats]]

CacheAdd_Swap(data, modname, bins, dats) ==
    [m \in DOMAIN data \cup {modname} |->
        IF m = modname THEN [binaries |-> dats, datas |-> bins] ELSE data[m]]

\* AdditionalFilesCache.add: self.data[modname] = {'binaries': ..., 'datas': ...}
CacheAdd(data, modname, bins, dats) ==
    [m \in DOMAIN data \cup {modname} |->
        IF m = modname THEN [binaries |-> bins, datas |-> dats] ELSE data[m]]

\* AdditionalFilesCache.binaries(modname); a KeyError when never added
CacheBinaries(data, modname) == data[modname].binaries

\* AdditionalFilesCache.datas(modname)
CacheDatas(data, modname) == data[modname].datas

FilesInit ==
    /\ AdditionalFilesCache_data = <<>>
    /\ files_own = <<>>
    /\ files_ever = <<>>
    /\ files_prev = <<>>
    /\ files_last = <<>>
    /\ files_n = 0

\* one add() call, with the history of the calls
RecordAdd(modname, bins, dats) ==
    /\ AdditionalFilesCache_data' = CacheAdd(AdditionalFilesCache_data, modname, bins, dats)
    /\ files_own' = [m \in DOMAIN files_own \cup {modname} |->
          IF m = modname THEN [binaries |-> bins, datas |-> dats] ELSE files_own[m]]
    /\ files_ever' = [m \in DOMAIN files_ever \cup {modname} |->
          LET old == IF m \in DOMAIN files_ever THEN files_ever[m]
                     ELSE [binaries |-> {}, datas |-> {}]
          IN  IF m = modname
              THEN [binaries |-> old.binaries \cup bins, datas |-> old.datas \cup dats]
              ELSE old]
    /\ files_prev' = AdditionalFilesCache_data
    /\ files_last' = modname
    /\ files_n' = files_n + 1

add ==
    /\ files_n < MaxAdds
    /\ \E modname \in Packages, bins \in SUBSET TocPairs, dats \in SUBSET TocPairs :
        RecordAdd(modname, bins, dats)
    /\ UNCHANGED <<cacheVars, graphVars, hookVars>>

Recorded(m) == m \in DOMAIN AdditionalFilesCache_data

\* C5 as stated: every pair ever stored under a module name is still returned
\* by binaries()/datas(), also after a later add() for that same name.
C5_LedgerAdditive_AsStated ==
    \A m \in DOMAIN files_ever :
        /\ Recorded(m)
        /\ files_ever[m].binaries \subseteq CacheBinaries(AdditionalFilesCache_data, m)
        /\ files_ever[m].datas \subseteq CacheDatas(AdditionalFilesCache_data, m)

\* C5 amended: an add() for one module name erases nothing stored under any
\* other name: every pair binaries()/datas() returned for another name before
\* the call is still returned after it. (An add() for the same name replaces
\* the entry of that name.)
C5_LedgerAdditive ==
    files_n > 0 =>
        \A m \in DOMAIN files_prev :
            m # files_last =>
                /\ Recorded(m)
                /\ CacheBinaries(files_prev, m)
                      \subseteq CacheBinaries(AdditionalFilesCache_data, m)
                /\ CacheDatas(files_prev, m)
                      \subseteq CacheDatas(AdditionalFilesCache_data, m)

\* an entry with pairs was there before the last add(), which was for another name
C5_Witness ==
    /\ files_n > 1
    /\ \E m \in DOMAIN files_prev :
          /\ m # files_last
          /\ CacheBinaries(files_prev, m) # {}
          /\ CacheDatas(files_prev, m) # {}

\* C6: every module name that was added is queryable and binaries()/datas()
\* return exactly what the (last) add() of that name passed, whatever add()
\* calls for other names came before or after it.
C6_LedgerIndependence ==
    /\ DOMAIN AdditionalFilesCache_data = DOMAIN files_own
    /\ \A m \in DOMAIN files_own :
          /\ CacheBinaries(AdditionalFilesCache_data, m) = files_own[m].binaries
          /\ CacheDatas(AdditionalFilesCache_data, m) = files_own[m].datas

\* two names added with different collections, the first one before the other
C6_Witness ==
    /\ DOMAIN files_own = Packages
    /\ \E m1, m2 \in Packages :
          /\ m1 # m2
          /\ files_last = m2
          /\ files_own[m1].binaries # files_own[m2].binaries
          /\ files_own[m1].binaries # {}
          /\ CacheBinaries(AdditionalFilesCache_data, m1) = files_own[m1].binaries

(***************************************************************************)
(* mod_graph: the module graph the hooks work on                           *)
(***************************************************************************)
MaxEdges == 3
MaxExcluded == 2

idA == <<"a">>
idAS == <<"a", ".", "s">>
idB == <<"b">>
idBC == <<"b", ".", "c">>
idZ == <<"z">>
\* a name no module has: never a node, never importable
idQ == <<"q">>
Identifiers == {idA, idAS, idB, idBC, idZ}

\* the graphs over N with at most k references; nothing imports the hooked module
AllEdges(N) == {e \in N \X N : e[1] # e[2] /\ e[2] # idA}
RECURSIVE EdgeSets(_, _)
EdgeSets(N, k) ==
    IF k = 0 THEN {{}}
    ELSE LET S == EdgeSets(N, k - 1)
         IN  S \cup {s \cup {e} : s \in S, e \in AllEdges(N)}

\* mod_graph.findNode(ident) is not None
FindNode(G, ident) == ident \in G.nodes

\* mod_graph.getReferers(node): the nodes with a reference to node
GetReferers(G, node) == {e[1] : e \in {d \in G.edges : d[2] = node}}

\* mod_graph.removeReference(fromnode, tonode)
RemoveReference(G, fromnode, tonode) ==
    [G EXCEPT !.edges = @ \ {<<fromnode, tonode>>}]

\* mod_graph.removeNode(node): the node goes, and with it its references
RemoveNode(G, node) ==
    [nodes |-> G.nodes \ {node},
     edges |-> {e \in G.edges : e[1] # node /\ e[2] # node}]

\* removeReference / removeNode over a set: the calls commute
RemoveReferences(G, refs) == [G EXCEPT !.edges = @ \ refs]
RemoveNodes(G, gone) ==
    [nodes |-> G.nodes \ gone,
     edges |-> {e \in G.edges : e[1] \notin gone /\ e[2] \notin gone}]

Graph == [nodes |-> nodes, edges |-> edges]

GraphInit ==
    /\ nodes \in {N \in SUBSET Identifiers : idA \in N}
    /\ edges \in EdgeSets(nodes, MaxEdges)
    /\ nodeinfo = <<>>

GraphIdle ==
    /\ nodes = {}
    /\ edges = {}
    /\ nodeinfo = <<>>

(***************************************************************************)
(* ImportHook._process_excludedimports                                     *)
(***************************************************************************)
\* not_allowed_references = [self._name] + self._module.excludedimports
NotAllowedReferences(P, X) == <<P>> \o X

\* the referers whose reference to item is removed: those with a prefix among
\* not_allowed_references
RemovedReferers(G, P, X, item) ==
    {r \in GetReferers(G, item) :
        \E i \in DOMAIN NotAllowedReferences(P, X) :
            StartsWith(r, NotAllowedReferences(P, X)[i])}

\* the calls mod_graph.removeReference(r, excluded_node) of the referer scan:
\* for every referer, one call for each entry of not_allowed_references the
\* referer's identifier starts with (the inner loop goes on after a call)
RemoveRequests(G, P, X, item) ==
    [r \in GetReferers(G, item) |->
        Cardinality({i \in DOMAIN NotAllowedReferences(P, X) :
                        StartsWith(r, NotAllowedReferences(P, X)[i])})]

SafeToRemove_Always(G, P, X, item) == TRUE

\* safe_to_remove: set to False by every pair (referer, not_allowed) where the
\* referer starts neither with not_allowed nor with item
SafeToRemove(G, P, X, item) ==
    \A r \in GetReferers(G, item) :
        \A i \in DOMAIN NotAllowedReferences(P, X) :
            \/ StartsWith(r, NotAllowedReferences(P, X)[i])
            \/ StartsWith(r, item)

\* the nodes whose identifier starts with item + '.'
SubmoduleList(G, item) == {n \in G.nodes : StartsWith(n, item \o <<".">>)}

\* a name findNode does not find is logged: nothing leaves the loop
ExcludedImportRaises(G, item) == FALSE

\* the body of the loop of _process_excludedimports for one item
ExcludedImport(G, P, X, item) ==
    IF ~FindNode(G, item) THEN G
    ELSE LET G1 == RemoveReferences(G,
                       {<<r, item>> : r \in RemovedReferers(G, P, X, item)})
             subs == SubmoduleList(G1, item)
             G2 == RemoveReferences(G1, {e \in G1.edges : e[2] \in subs})
         IN  IF SafeToRemove(G, P, X, item)
             THEN RemoveNode(RemoveNodes(G2, subs), item)
             ELSE G1

\* _process_excludedimports, one item of self._module.excludedimports at a time
process_excludedimports ==
    /\ pc = "excludedimports"
    /\ "excludedimports" \in DOMAIN module
    /\ idx <= Len(module.excludedimports)
    /\ LET item == module.excludedimports[idx]
           G == ExcludedImport(Graph, name, module.excludedimports, item)
       IN  /\ nodes' = G.nodes
           /\ edges' = G.edges
           /\ last' = [step |-> "excludedimports", item |-> item,
                       nodes |-> nodes, edges |-> edges,
                       requests |-> RemoveRequests(Graph, name,
                                                   module.excludedimports, item)]
           /\ pc' = IF ExcludedImportRaises(Graph, item) THEN "raised" ELSE pc
           /\ pass0' = [pass0 EXCEPT !.pruned = @ \cup (edges \ G.edges)]
    /\ idx' = idx + 1
    /\ UNCHANGED <<cacheVars, filesVars, nodeinfo, name, module, absent, binaries, datas,
                   mod, step0>>

\* what is kept of the moment a pass begins
PassStart ==
    [cache |-> HooksCache_data, files |-> AdditionalFilesCache_data, n |-> files_n,
     info |-> nodeinfo, injected |-> {}, removed |-> {}, hidden |-> {}, pruned |-> {}]

HookIdle ==
    /\ name = <<>>
    /\ module = <<>>
    /\ absent = {}
    /\ binaries = {}
    /\ datas = {}
    /\ mod = <<>>
    /\ pc = "idle"
    /\ idx = 0
    /\ last = [step |-> "none"]
    /\ step0 = Graph
    /\ pass0 = PassStart

(***************************************************************************)
(* FakeModule: the mod handed to hook(mod)                                 *)
(***************************************************************************)
MaxCalls == 2
MaxTuples == 2

\* the node whose type is Extension
IsExtension(n) == n = idZ

\* the names hook(mod) passes to add_import and del_import
CallNames == {idB, idZ}
\* TOC tuples (name, path, typecode) passed to add_binary and add_data
TocTuples == {<< <<"t1">>, <<"s1">>, "BINARY">>, << <<"t2">>, <<"s2">>, "DATA">>}

RECURSIVE SetToSeq(_)
SetToSeq(S) ==
    IF S = {} THEN <<>>
    ELSE LET x == CHOOSE y \in S : TRUE IN <<x>> \o SetToSeq(S \ {x})

\* lists over S without repetition, of length at most n
ListsUpTo(S, n) == {l \in SeqsUpTo(S, n) : Cardinality(Range(l)) = Len(l)}

\* mod_graph.flatten(start=node): the nodes reachable from node, node included
RECURSIVE Reach(_, _)
Reach(G, S) ==
    LET T == S \cup {e[2] : e \in {d \in G.edges : d[1] \in S}}
    IN  IF T = S THEN S ELSE Reach(G, T)
Flatten(G, start) == Reach(G, {start})

\* node.filename and node.code
NodeFilename(info, n) == IF n \in DOMAIN info THEN info[n].filename ELSE <<"file", n>>
NodeCode(info, n) == IF n \in DOMAIN info THEN info[n].code ELSE <<"code", <<"file", n>>>>

\* FakeModule.__init__
FakeModule(identifier, G, info) ==
    [name |-> identifier,
     node |-> identifier,
     file |-> NodeFilename(info, identifier),
     co |-> NodeCode(info, identifier),
     datas |-> <<>>,
     binaries |-> SetToSeq({<< <<n, NodeFilename(info, n), "BINARY">> >> :
                              n \in {x \in Flatten(G, identifier) : IsExtension(x)}}),
     imports |-> SetToSeq({<<n, 1, 0, -1>> :
                              n \in {x \in Flatten(G, identifier) : ~IsExtension(x)}}),
     added_imports |-> <<>>,
     deleted_imports |-> <<>>,
     added_binaries |-> <<>>,
     calls |-> 0]

\* names as add_import and del_import take them: one name, or a list of names
NamesArgs ==
    {[list |-> FALSE, val |-> idZ],
     [list |-> TRUE, val |-> <<idB>>],
     [list |-> TRUE, val |-> <<idB, idZ>>]}

\* if not isinstance(names, list): names = [names]
AsList(names) == IF names.list THEN names.val ELSE <<names.val>>

\* FakeModule.add_import
AddImport(m, names) ==
    [m EXCEPT !.added_imports = @ \o AsList(names),
              !.imports = @ \o [i \in DOMAIN AsList(names) |-> <<AsList(names)[i], 1, 0, -1>>],
              !.calls = @ + 1]

DelImport_Visible(m, names) ==
    [m EXCEPT !.deleted_imports = @ \o AsList(names),
              !.imports = SelectSeq(@, LAMBDA e : e[1] \notin Range(AsList(names))),
              !.calls = @ + 1]

\* FakeModule.del_import
DelImport(m, names) ==
    [m EXCEPT !.deleted_imports = @ \o AsList(names), !.calls = @ + 1]

\* FakeModule.add_binary
AddBinary(m, list_of_tuples) ==
    [m EXCEPT !.added_binaries = @ \o list_of_tuples,
              !.binaries = @ \o list_of_tuples,
              !.calls = @ + 1]

\* FakeModule.add_data
AddData(m, list_of_tuples) ==
    [m EXCEPT !.datas = @ \o list_of_tuples, !.calls = @ + 1]

\* the files retarget() is pointed at, and the modules each one imports
fake_plain_py == <<"file", <<"fake-plain">>>>
fake_imports_b_py == <<"file", <<"fake-imports-b">>>>
RetargetFiles == {fake_plain_py, fake_imports_b_py}
ScannedImports(path) == IF path = fake_imports_b_py THEN {idB} ELSE {}

\* get_code_object(path_to_new_code, new_filename=self.node.filename)
GetCodeObject(path, new_filename) == <<"code", path, new_filename>>

\* mod_graph._scan_code(code, node): a reference from node to every module the
\* code imports
ScanCode(G, path, node) ==
    [nodes |-> G.nodes \cup ScannedImports(path),
     edges |-> G.edges \cup {<<node, t>> : t \in ScannedImports(path)}]

\* mod_graph.run_script(item, caller) and mod_graph.import_hook(item, caller=caller):
\* the node of item, and a reference from caller to it
AddReference(G, item, caller) ==
    [nodes |-> G.nodes \cup {item}, edges |-> G.edges \cup {<<caller, item>>}]

InHook == pc = "hook" /\ "hook" \in DOMAIN module

AddImportGraph_Eager(G, m, names) ==
    [nodes |-> G.nodes \cup Range(AsList(names)),
     edges |-> G.edges \cup {<<m.node, n>> : n \in Range(AsList(names))}]

\* add_import does not use self.graph: the graph after the call is the graph
\* before it
AddImportGraph(G, m, names) == G

\* hook(mod) calls mod.add_import(names)
add_import ==
    /\ InHook /\ mod.calls < MaxCalls
    /\ \E names \in NamesArgs :
        /\ mod' = AddImport(mod, names)
        /\ nodes' = AddImportGraph(Graph, mod, names).nodes
        /\ edges' = AddImportGraph(Graph, mod, names).edges
        /\ last' = [step |-> "add_import", arg |-> names, mod |-> mod,
                    nodes |-> nodes, edges |-> edges]
    /\ UNCHANGED <<cacheVars, filesVars, nodeinfo, name, module, absent, binaries, datas,
                   pc, idx, step0, pass0>>

\* hook(mod) calls mod.del_import(names)
del_import ==
    /\ InHook /\ mod.calls < MaxCalls
    /\ \E names \in NamesArgs :
        /\ mod' = DelImport(mod, names)
        /\ last' = [step |-> "del_import", arg |-> names, mod |-> mod,
                    nodes |-> nodes, edges |-> edges]
    /\ UNCHANGED <<cacheVars, filesVars, graphVars, name, module, absent, binaries, datas,
                   pc, idx, step0, pass0>>

\* hook(mod) calls mod.add_binary(list_of_tuples)
add_binary ==
    /\ InHook /\ mod.calls < MaxCalls
    /\ \E list_of_tuples \in ListsUpTo(TocTuples, MaxTuples) :
        /\ mod' = AddBinary(mod, list_of_tuples)
        /\ last' = [step |-> "add_binary", arg |-> list_of_tuples, mod |-> mod,
                    nodes |-> nodes, edges |-> edges]
    /\ UNCHANGED <<cacheVars, filesVars, graphVars, name, module, absent, binaries, datas,
                   pc, idx, step0, pass0>>

\* hook(mod) calls mod.add_data(list_of_tuples)
add_data ==
    /\ InHook /\ mod.calls < MaxCalls
    /\ \E list_of_tuples \in ListsUpTo(TocTuples, MaxTuples) :
        /\ mod' = AddData(mod, list_of_tuples)
        /\ last' = [step |-> "add_data", arg |-> list_of_tuples, mod |-> mod,
                    nodes |-> nodes, edges |-> edges]
    /\ UNCHANGED <<cacheVars, filesVars, graphVars, name, module, absent, binaries, datas,
                   pc, idx, step0, pass0>>

\* hook(mod) calls mod.retarget(path_to_new_code)
retarget ==
    /\ InHook /\ mod.calls < MaxCalls
    /\ \E path_to_new_code \in RetargetFiles :
        LET new_code == GetCodeObject(path_to_new_code, NodeFilename(nodeinfo, mod.node))
            G == ScanCode(Graph, path_to_new_code, mod.node)
        IN  /\ nodeinfo' = [n \in DOMAIN nodeinfo \cup {mod.node} |->
                               IF n = mod.node
                               THEN [code |-> new_code, filename |-> path_to_new_code]
                               ELSE nodeinfo[n]]
            /\ nodes' = G.nodes
            /\ edges' = G.edges
            /\ last' = [step |-> "retarget", arg |-> path_to_new_code, mod |-> mod,
                        nodes |-> nodes, edges |-> edges]
    /\ mod' = [mod EXCEPT !.calls = @ + 1]
    /\ UNCHANGED <<cacheVars, filesVars, name, module, absent, binaries, datas,
                   pc, idx, step0, pass0>>

(***************************************************************************)
(* ImportHook._process_hook_function, after hook(mod) has returned          *)
(***************************************************************************)
AssertTag_Off(item, typecode) == TRUE

\* assert(item[2] == 'BINARY'), assert(item[2] == 'DATA')
AssertTag(item, typecode) == item[3] = typecode

\* item[0:2]
DropTypecode(item) == <<item[1], item[2]>>

\* the position of the first tuple of q whose assert fails, Len(q) + 1 if none
FirstBad(q, typecode) ==
    CHOOSE k \in 1..(Len(q) + 1) :
        /\ k = Len(q) + 1 \/ ~AssertTag(q[k], typecode)
        /\ \A j \in 1..(k - 1) : AssertTag(q[j], typecode)

\* the tuples of q the loop added before it ended or an assert failed
AddedBefore(q, typecode) == {DropTypecode(q[j]) : j \in 1..(FirstBad(q, typecode) - 1)}

BinariesRaise(m) == FirstBad(m.added_binaries, "BINARY") <= Len(m.added_binaries)
DatasRaise(m) == FirstBad(m.datas, "DATA") <= Len(m.datas)

\* an AssertionError leaves _process_hook_function
HookFunctionRaises(m) == BinariesRaise(m) \/ DatasRaise(m)

RunScripts_None(G, items, caller) == G

RECURSIVE RunScripts(_, _, _)
\* for item in mod._added_imports: mod_graph.run_script(item, findNode(self._name))
RunScripts(G, items, caller) ==
    IF items = <<>> THEN G
    ELSE RunScripts(AddReference(G, Head(items), caller), Tail(items), caller)

\* for item in mod._deleted_imports: mod_graph.removeReference(mod.node, item)
RemoveDeleted(G, m) ==
    RemoveReferences(G, {<<m.node, m.deleted_imports[i]>> : i \in DOMAIN m.deleted_imports})

\* the four loops that follow hook(mod)
process_hook_function ==
    /\ InHook
    /\ LET G1 == RunScripts(Graph, mod.added_imports, name)
           G == IF HookFunctionRaises(mod) THEN G1 ELSE RemoveDeleted(G1, mod)
       IN  /\ nodes' = G.nodes
           /\ edges' = G.edges
           /\ pass0' = [pass0 EXCEPT !.injected = G.edges \ step0.edges,
                                     !.removed = step0.edges \ G.edges,
                                     !.info = nodeinfo]
    /\ binaries' = binaries \cup AddedBefore(mod.added_binaries, "BINARY")
    /\ datas' = IF BinariesRaise(mod) THEN datas
                ELSE datas \cup AddedBefore(mod.datas, "DATA")
    /\ pc' = IF HookFunctionRaises(mod) THEN "raised" ELSE "hiddenimports"
    /\ last' = [step |-> "hook", mod |-> mod, nodes |-> nodes, edges |-> edges]
    /\ mod' = <<>>
    /\ UNCHANGED <<cacheVars, filesVars, nodeinfo, name, module, absent, idx, step0>>

(***************************************************************************)
(* ImportHook._process_hiddenimports                                       *)
(***************************************************************************)
MaxHidden == 2

\* the modules import_hook finds; for any other name it raises ImportError
Importable == {idA, idAS, idB, idBC, idZ}
HiddenNames == {idZ, idQ}

HiddenImportRaises_Uncaught(item) == item \notin Importable

\* an ImportError of import_hook is caught inside the loop: nothing leaves it
HiddenImportRaises(item) == FALSE

\* the body of the loop of _process_hiddenimports for one item
HiddenImport(G, P, item) ==
    IF item \in Importable THEN AddReference(G, item, P) ELSE G

\* _process_hiddenimports, one item of self._module.hiddenimports at a time
process_hiddenimports ==
    /\ pc = "hiddenimports"
    /\ "hiddenimports" \in DOMAIN module
    /\ idx <= Len(module.hiddenimports)
    /\ LET item == module.hiddenimports[idx]
           G == HiddenImport(Graph, name, item)
       IN  /\ nodes' = IF HiddenImportRaises(item) THEN nodes ELSE G.nodes
           /\ edges' = IF HiddenImportRaises(item) THEN edges ELSE G.edges
           /\ pc' = IF HiddenImportRaises(item) THEN "raised" ELSE pc
           /\ last' = [step |-> "hiddenimports", item |-> item,
                       nodes |-> nodes, edges |-> edges]
           /\ pass0' = [pass0 EXCEPT !.hidden =
                            @ \cup ((IF HiddenImportRaises(item) THEN edges ELSE G.edges)
                                        \ edges)]
    /\ idx' = idx + 1
    /\ UNCHANGED <<cacheVars, filesVars, nodeinfo, name, module, absent, binaries, datas,
                   mod, step0>>

(***************************************************************************)
(* _format_hook_datas. Paths are sequences of path components; the empty   *)
(* string is the empty sequence.                                           *)
(***************************************************************************)
MaxDatas == 2

\* the files and the directories on disk
SrcFiles == {<<"d", "c.txt">>, <<"d", "pkg", "f.txt">>, <<"d", "pkg", "sub", "g.txt">>,
             <<"d", "etc", "h.txt">>}
SrcDirs == {<<"d">>, <<"d", "pkg">>, <<"d", "pkg", "sub">>, <<"d", "etc">>}

\* glob.glob(src_root_path_or_glob): the paths on disk that match
GlobMatches(src) ==
    CASE src = "/d/c.txt" -> {<<"d", "c.txt">>}
      [] src = "/d/pkg" -> {<<"d", "pkg">>}
      [] src = "/d/*" -> {<<"d", "c.txt">>, <<"d", "pkg">>, <<"d", "etc">>}
      [] OTHER -> {}
SourceSpecs == {"/d/c.txt", "/d/pkg", "/d/*", "/d/*.dat"}
TargetDirs == {<<>>, <<"lib">>}

\* os.path.basename, os.path.isfile, os.path.isdir
Basename(path) == path[Len(path)]
IsFile(path) == path \in SrcFiles
IsDir(path) == path \in SrcDirs

\* os.path.join(a, b) for a relative b
Join(a, b) == a \o b

\* os.path.relpath(src_dir, src_root_path) for a src_dir at or below src_root_path
RelPath(src_dir, src_root_path) ==
    IF src_dir = src_root_path THEN <<".">>
    ELSE SubSeq(src_dir, Len(src_root_path) + 1, Len(src_dir))

\* os.path.normpath: the '.' components go; the empty path is '.'
NormPath(path) ==
    LET q == SelectSeq(path, LAMBDA c : c # ".")
    IN  IF q = <<>> THEN <<".">> ELSE q

\* os.walk(src_root_path): the directories at or below it
Walk(src_root_path) == {d \in SrcDirs : StartsWith(d, src_root_path)}

\* the files directly in directory src_dir
FilesIn(src_dir) == {f \in SrcFiles : SubSeq(f, 1, Len(f) - 1) = src_dir}

\* the records of one matched directory (lines 469-495)
DirRecords(src_root_path, trg_root_dir) ==
    SetToSeq({<<Join(NormPath(Join(trg_root_dir, RelPath(src_dir, src_root_path))),
                     <<Basename(src_file)>>),
                src_file>> :
              src_dir \in Walk(src_root_path), src_file \in SrcFiles} \cap
             {<<Join(NormPath(Join(trg_root_dir,
                                   RelPath(SubSeq(f, 1, Len(f) - 1), src_root_path))),
                     <<Basename(f)>>),
                f>> :
              f \in UNION {FilesIn(d) : d \in Walk(src_root_path)}})

RECURSIVE ExpandPaths(_, _)
\* the loop over src_root_paths (lines 457-495); trg_root_dir is assigned in the
\* loop, so a default taken for one directory is what the following paths see
ExpandPaths(src_root_paths, trg_root_dir) ==
    IF src_root_paths = <<>> THEN <<>>
    ELSE LET src_root_path == Head(src_root_paths)
         IN  IF IsFile(src_root_path)
             THEN <<<<Join(trg_root_dir, <<Basename(src_root_path)>>), src_root_path>>>>
                      \o ExpandPaths(Tail(src_root_paths), trg_root_dir)
             ELSE IF IsDir(src_root_path)
             THEN LET trg == IF trg_root_dir = <<>> THEN <<Basename(src_root_path)>>
                             ELSE trg_root_dir
                  IN  DirRecords(src_root_path, trg)
                          \o ExpandPaths(Tail(src_root_paths), trg)
             ELSE ExpandPaths(Tail(src_root_paths), trg_root_dir)

FormatHookDatasRaises_Skip(hook_datas) == FALSE

FormatHookDatasRaises_FirstOnly(hook_datas) ==
    hook_datas # <<>> /\ GlobMatches(hook_datas[1][1]) = {}

\* raise FileNotFoundError: some glob of the list matches nothing
FormatHookDatasRaises(hook_datas) ==
    \E i \in DOMAIN hook_datas : GlobMatches(hook_datas[i][1]) = {}

RECURSIVE FormatHookDatas(_, _)
\* _format_hook_datas(datas) when nothing is raised; globbed[i] is what
\* glob.glob returned for the i-th pair, in the order it returned it
FormatHookDatas(hook_datas, globbed) ==
    IF hook_datas = <<>> THEN <<>>
    ELSE ExpandPaths(Head(globbed), Head(hook_datas)[2])
             \o FormatHookDatas(Tail(hook_datas), Tail(globbed))

\* what the loop over src_root_paths appends to toc_datas for the i-th pair:
\* nothing once a glob of the list has matched nothing
Emitted(hook_datas, globbed, i) ==
    IF \E j \in 1..i : globbed[j] = <<>> THEN <<>>
    ELSE ExpandPaths(globbed[i], hook_datas[i][2])

\* the lists that hold every element of S once
Orders(S) == {l \in [1..Cardinality(S) -> S] : Range(l) = S}

\* every order glob.glob may return the matches of each pair in
GlobOrders(hook_datas) ==
    {g \in [DOMAIN hook_datas ->
                UNION {Orders(GlobMatches(hook_datas[i][1])) : i \in DOMAIN hook_datas}] :
        \A i \in DOMAIN hook_datas : g[i] \in Orders(GlobMatches(hook_datas[i][1]))}

(***************************************************************************)
(* ImportHook.update_dependencies, step by step, and the caller that       *)
(* stores what the hook collected                                          *)
(***************************************************************************)
MaxPassEdges == 1

PassIdentifiers == {idA, idB, idBC, idZ}
PassEdges == {<<idA, idB>>, <<idA, idZ>>, <<idBC, idZ>>}
PassExcluded == {idB, idZ}
PassDataSpecs == {<<"/d/c.txt", <<"lib">>>>, <<"/d/pkg", <<>>>>, <<"/d/*.dat", <<>>>>}

Attributes == {"hook", "hiddenimports", "excludedimports", "datas", "binaries", "attrs"}

NextStep_HiddenLast(a) ==
    CASE a = "hook" -> "excludedimports"
      [] a = "excludedimports" -> "datas"
      [] a = "datas" -> "binaries"
      [] a = "binaries" -> "attrs"
      [] a = "attrs" -> "hiddenimports"
      [] a = "hiddenimports" -> "returned"

\* the order of the hasattr tests of update_dependencies
NextStep(a) ==
    CASE a = "hook" -> "hiddenimports"
      [] a = "hiddenimports" -> "excludedimports"
      [] a = "excludedimports" -> "datas"
      [] a = "datas" -> "binaries"
      [] a = "binaries" -> "attrs"
      [] a = "attrs" -> "returned"

\* the values a hook file gives each attribute
AttrValues(a) ==
    CASE a = "hook" -> {<<"hook(mod)">>}
      [] a = "hiddenimports" -> SeqsUpTo(HiddenNames, MaxHidden)
      [] a = "excludedimports" -> SeqsUpTo(PassExcluded, MaxExcluded)
      [] a = "datas" -> SeqsUpTo(PassDataSpecs, MaxDatas)
      [] a = "binaries" -> ListsUpTo(TocPairs, MaxTuples)
      [] a = "attrs" -> {<<>>}

\* ImportHook.__init__(modname, hook_filename), for a module of the graph
\* whose hook the HooksCache knows and that was not processed before
ImportHook_init ==
    /\ pc = "idle"
    /\ \E modname \in (DOMAIN HooksCache_data \cap nodes) \ DOMAIN AdditionalFilesCache_data :
          name' = modname
    /\ module' = <<>>
    /\ absent' = {}
    /\ binaries' = {}
    /\ datas' = {}
    /\ pc' = "hook"
    /\ last' = [step |-> "init", nodes |-> nodes, edges |-> edges]
    /\ step0' = Graph
    /\ pass0' = PassStart
    /\ UNCHANGED <<cacheVars, filesVars, graphVars, mod, idx>>

\* hasattr(self._module, a) is False: the step is skipped. module holds the
\* attribute the step at pc reads, absent the attribute it found missing
hasattr_false ==
    /\ pc \in Attributes
    /\ pc \notin DOMAIN module
    /\ absent' = {pc}
    /\ module' = <<>>
    /\ pc' = NextStep(pc)
    /\ last' = [step |-> "hasattr_false", attr |-> pc, nodes |-> nodes, edges |-> edges]
    /\ UNCHANGED <<cacheVars, filesVars, graphVars, name, binaries, datas, mod,
                   idx, step0, pass0>>

\* hasattr(self._module, a) is True: the step begins; for 'hook' the FakeModule
\* is made and hook(mod) is entered
hasattr_true ==
    /\ pc \in Attributes
    /\ pc \notin DOMAIN module
    /\ \E v \in AttrValues(pc) : module' = [a \in {pc} |-> v]
    /\ absent' = {}
    /\ mod' = IF pc = "hook" THEN FakeModule(name, Graph, nodeinfo) ELSE mod
    /\ idx' = 1
    /\ step0' = Graph
    /\ last' = [step |-> "hasattr_true", attr |-> pc, nodes |-> nodes, edges |-> edges]
    /\ UNCHANGED <<cacheVars, filesVars, graphVars, name, binaries, datas, pc, pass0>>

\* the for loop of _process_hiddenimports or _process_excludedimports is over
end_of_list ==
    /\ pc \in {"hiddenimports", "excludedimports"}
    /\ pc \in DOMAIN module
    /\ idx > Len(module[pc])
    /\ pc' = NextStep(pc)
    /\ last' = [step |-> "end_of_list", attr |-> pc, nodes |-> nodes, edges |-> edges]
    /\ UNCHANGED <<cacheVars, filesVars, graphVars, name, module, absent, binaries, datas,
                   mod, idx, step0, pass0>>

\* ImportHook._process_datas
process_datas ==
    /\ pc = "datas"
    /\ "datas" \in DOMAIN module
    /\ \E globbed \in GlobOrders(module.datas) :
        /\ IF FormatHookDatasRaises(module.datas)
           THEN /\ pc' = "raised"
                /\ datas' = datas
           ELSE /\ pc' = NextStep(pc)
                /\ datas' = datas \cup Range(FormatHookDatas(module.datas, globbed))
        /\ last' = [step |-> "datas", nodes |-> nodes, edges |-> edges, datas |-> datas,
                    globbed |-> globbed,
                    emitted |-> [i \in DOMAIN module.datas |->
                                    Emitted(module.datas, globbed, i)]]
    /\ UNCHANGED <<cacheVars, filesVars, graphVars, name, module, absent, binaries, mod,
                   idx, step0, pass0>>

\* ImportHook._process_binaries
process_binaries ==
    /\ pc = "binaries"
    /\ "binaries" \in DOMAIN module
    /\ binaries' = binaries \cup Range(module.binaries)
    /\ pc' = NextStep(pc)
    /\ last' = [step |-> "binaries", nodes |-> nodes, edges |-> edges]
    /\ UNCHANGED <<cacheVars, filesVars, graphVars, name, module, absent, datas, mod,
                   idx, step0, pass0>>

\* ImportHook._process_attrs
process_attrs ==
    /\ pc = "attrs"
    /\ "attrs" \in DOMAIN module
    /\ pc' = NextStep(pc)
    /\ last' = [step |-> "attrs", nodes |-> nodes, edges |-> edges]
    /\ UNCHANGED <<cacheVars, filesVars, graphVars, name, module, absent, binaries, datas,
                   mod, idx, step0, pass0>>

\* after update_dependencies has returned the caller stores the hook's binaries
\* and datas in the AdditionalFilesCache under the hook's module name
collect ==
    /\ pc = "returned"
    /\ RecordAdd(name, binaries, datas)
    /\ pc' = "collected"
    /\ last' = [step |-> "collect", nodes |-> nodes, edges |-> edges]
    /\ UNCHANGED <<cacheVars, graphVars, name, module, absent, binaries, datas, mod,
                   idx, step0, pass0>>

(***************************************************************************)
(* The excluded-imports step on its own: hook 'a' with a drawn graph and   *)
(* a drawn excludedimports list                                            *)
(***************************************************************************)
ExcludedNames == {idAS, idB, idBC, idZ}

InitExclude ==
    /\ CacheIdle /\ FilesInit /\ GraphInit
    /\ name = idA
    /\ module \in {[excludedimports |-> X] : X \in SeqsUpTo(ExcludedNames, MaxExcluded)}
    /\ absent = {}
    /\ binaries = {}
    /\ datas = {}
    /\ mod = <<>>
    /\ pc = "excludedimports"
    /\ idx = 1
    /\ last = [step |-> "none"]
    /\ step0 = Graph
    /\ pass0 = PassStart

NextExclude == process_excludedimports
SpecExclude == InitExclude /\ [][NextExclude]_vars

\* the graph before the last item of the excluded-imports step
PreGraph == [nodes |-> last.nodes, edges |-> last.edges]

\* strict dotted-path descendants of E in G
Descendants(G, E) == {n \in G.nodes : n # E /\ StartsWith(n, E \o <<".">>)}

\* R is prefixed neither by P, nor by a name of X, nor by E
Independent(R, P, X, E) ==
    /\ ~StartsWith(R, P)
    /\ \A i \in DOMAIN X : ~StartsWith(R, X[i])
    /\ ~StartsWith(R, E)

\* the last step processed excluded name E, a node with an independent referer
UnsafeCase ==
    /\ last.step = "excludedimports"
    /\ last.item \in last.nodes
    /\ \E R \in GetReferers(PreGraph, last.item) :
          Independent(R, name, module.excludedimports, last.item)

\* the last step processed excluded name E, a node with no independent referer
SafeCase ==
    /\ last.step = "excludedimports"
    /\ last.item \in last.nodes
    /\ \A R \in GetReferers(PreGraph, last.item) :
          ~Independent(R, name, module.excludedimports, last.item)

\* C1 as stated: with an independent referer of E, E and its descendants stay
\* and EVERY reference to E or to a descendant that existed before still exists.
C1_PruningSafety_AsStated ==
    UnsafeCase =>
        LET kept == {last.item} \cup Descendants(PreGraph, last.item)
        IN  /\ kept \subseteq nodes
            /\ \A e \in last.edges : e[2] \in kept => e \in edges

\* C1 amended: with an independent referer of E, E and its descendants stay in
\* the graph, every reference to a descendant stays, and every reference to E
\* stays whose referer is prefixed neither by the hooked module nor by a name of
\* the exclusion list (the references of the other referers are removed).
C1_PruningSafety ==
    UnsafeCase =>
        LET E == last.item
            X == module.excludedimports
            desc == Descendants(PreGraph, E)
        IN  /\ ({E} \cup desc) \subseteq nodes
            /\ \A e \in last.edges : e[2] \in desc => e \in edges
            /\ \A e \in last.edges :
                  (e[2] = E /\ ~StartsWith(e[1], name)
                            /\ \A i \in DOMAIN X : ~StartsWith(e[1], X[i]))
                  => e \in edges
            /\ \A e \in last.edges :
                  (e[2] = E /\ (StartsWith(e[1], name)
                                \/ \E i \in DOMAIN X : StartsWith(e[1], X[i])))
                  => e \notin edges

\* an independent referer and a referer below the hooked module, E with a
\* descendant that is referenced too
C1_Witness ==
    /\ UnsafeCase
    /\ \E R \in GetReferers(PreGraph, last.item) : StartsWith(R, name)
    /\ \E d \in Descendants(PreGraph, last.item) : GetReferers(PreGraph, d) # {}

\* C2: without an independent referer of E, after the step E, its strict
\* descendants and every reference to any of them are gone from the graph.
C2_PruningCompleteness ==
    SafeCase =>
        LET gone == {last.item} \cup Descendants(PreGraph, last.item)
        IN  /\ gone \cap nodes = {}
            /\ \A e \in edges : e[2] \notin gone

\* C3: a node the step removed (E or a strict descendant of E) had no
\* independent referer before the step.
C3_NoOrphaning ==
    last.step = "excludedimports" /\ last.item \in last.nodes =>
        \A N \in (({last.item} \cup Descendants(PreGraph, last.item)) \ nodes) :
            \A R \in GetReferers(PreGraph, N) :
                ~Independent(R, name, module.excludedimports, last.item)

(***************************************************************************)
(* Specifications                                                          *)
(***************************************************************************)
\* the datas step on its own, for every list of (source, target) pairs
InitDatas ==
    /\ CacheIdle /\ FilesInit /\ GraphIdle
    /\ name = idA
    /\ module \in {[datas |-> l] : l \in SeqsUpTo(SourceSpecs \X TargetDirs, MaxDatas)}
    /\ absent = {}
    /\ binaries = {}
    /\ datas \in {{}, {<< <<"t2">>, <<"s2">> >>}}
    /\ mod = <<>>
    /\ pc = "datas"
    /\ idx = 0
    /\ last = [step |-> "none"]
    /\ step0 = Graph
    /\ pass0 = PassStart

NextDatas == process_datas
SpecDatas == InitDatas /\ [][NextDatas]_vars

InitCache == CacheInit /\ FilesInit /\ GraphIdle /\ HookIdle
NextCache == load_file_list \/ add_custom_paths \/ remove
SpecCache == InitCache /\ [][NextCache]_vars

InitFiles == CacheIdle /\ FilesInit /\ GraphIdle /\ HookIdle
NextFiles == add
SpecFiles == InitFiles /\ [][NextFiles]_vars

\* the HooksCache of the bundled hooks directory, which holds hook-a.py and hook-b.py
PassCacheInit ==
    /\ fs = [d \in HooksDirs |-> IF d = "hooks" THEN HookFiles \cup OtherFiles ELSE OtherFiles]
    /\ HooksCache_data = LoadFileList(<<>>, fs, "hooks")
    /\ cache_ops = <<LoadCall("hooks")>>
    /\ cache_prev = <<>>
    /\ cache_n = 1
    /\ cache_log = <<[op |-> "load", arg |-> "hooks"]>>

\* the AdditionalFilesCache holds what the hook of 'b' collected before
PassFilesInit ==
    \E bins \in {{<< <<"t1">>, <<"s1">> >>}}, dats \in {{<< <<"t2">>, <<"s2">> >>}} :
        /\ AdditionalFilesCache_data = CacheAdd(<<>>, idB, bins, dats)
        /\ files_own = [m \in {idB} |-> [binaries |-> bins, datas |-> dats]]
        /\ files_ever = [m \in {idB} |-> [binaries |-> bins, datas |-> dats]]
        /\ files_prev = <<>>
        /\ files_last = idB
        /\ files_n = 1

PassGraphInit ==
    /\ nodes \in {N \in SUBSET PassIdentifiers : {idA, idBC, idZ} \subseteq N}
    /\ edges \in {E \in SUBSET (PassEdges \cap (nodes \X nodes)) :
                    Cardinality(E) <= MaxPassEdges}
    /\ nodeinfo = <<>>

Init == PassCacheInit /\ PassFilesInit /\ PassGraphInit /\ HookIdle
Next ==
    \/ ImportHook_init
    \/ hasattr_false
    \/ hasattr_true
    \/ add_import
    \/ del_import
    \/ add_binary
    \/ add_data
    \/ retarget
    \/ process_hook_function
    \/ process_hiddenimports
    \/ process_excludedimports
    \/ end_of_list
    \/ process_datas
    \/ process_binaries
    \/ process_attrs
    \/ collect
Spec == Init /\ [][Next]_vars

(***************************************************************************)
(* Recoverable errors of the hidden-imports and excluded-imports steps     *)
(***************************************************************************)
RECURSIVE HiddenRun(_, _, _)
\* _process_hiddenimports over the list items
HiddenRun(G, P, items) ==
    IF items = <<>> THEN G
    ELSE HiddenRun(HiddenImport(G, P, Head(items)), P, Tail(items))

RECURSIVE ExcludedRun(_, _, _, _)
\* _process_excludedimports over the list items, X being the declared list
\* that not_allowed_references is built from
ExcludedRun(G, P, X, items) ==
    IF items = <<>> THEN G
    ELSE ExcludedRun(ExcludedImport(G, P, X, Head(items)), P, X, Tail(items))

RECURSIVE ExcludedFound(_, _, _, _)
\* the items that findNode finds when their turn comes
ExcludedFound(G, P, X, items) ==
    IF items = <<>> THEN <<>>
    ELSE (IF FindNode(G, Head(items)) THEN <<Head(items)>> ELSE <<>>)
             \o ExcludedFound(ExcludedImport(G, P, X, Head(items)), P, X, Tail(items))

\* the items of the list the step at pc has been through
Processed == SubSeq(module[pc], 1, idx - 1)
InListStep == pc \in {"hiddenimports", "excludedimports"} /\ pc \in DOMAIN module

\* no failure of a list item leaves its step, and the step hands over to the next
StepsGoOn ==
    /\ last.step \in {"hiddenimports", "excludedimports"} => pc = last.step
    /\ last.step = "end_of_list" => pc = NextStep(last.attr)

\* the hidden imports that could not be resolved leave no trace
HiddenPerItem ==
    (InListStep /\ pc = "hiddenimports") =>
        Graph = HiddenRun(step0, name,
                          SelectSeq(Processed, LAMBDA item : item \in Importable))

\* C4 as stated: in the hidden-imports and the excluded-imports step an item
\* that is not resolved does not end the step, the items after it are processed
\* exactly as if the unresolved item were not in the declared list, and the pass
\* goes on with the next step.
C4_PerItemRecovery_AsStated ==
    /\ StepsGoOn
    /\ HiddenPerItem
    /\ (InListStep /\ pc = "excludedimports") =>
          LET found == ExcludedFound(step0, name, module.excludedimports, Processed)
              declared == found \o SubSeq(module.excludedimports, idx,
                                          Len(module.excludedimports))
          IN  Graph = ExcludedRun(step0, name, declared, found)

\* C4 amended: an item that is not resolved does not end the step and changes
\* nothing in the graph, the items after it are processed, and the pass goes on
\* with the next step; in the excluded-imports step the unresolved name stays in
\* the declared list, so referrers under it still lose their references to the
\* later items.
C4_PerItemRecovery ==
    /\ StepsGoOn
    /\ HiddenPerItem
    /\ (InListStep /\ pc = "excludedimports") =>
          Graph = ExcludedRun(step0, name, module.excludedimports,
                              ExcludedFound(step0, name, module.excludedimports, Processed))

\* an excluded name that is not in the graph was followed by one that is, and
\* that one changed the graph
C4_Witness ==
    /\ InListStep /\ pc = "excludedimports"
    /\ idx = 3
    /\ ~FindNode(step0, module.excludedimports[1])
    /\ last.step = "excludedimports"
    /\ Graph # PreGraph

(***************************************************************************)
(* What a pass leaves in the AdditionalFilesCache                          *)
(***************************************************************************)
InPass == pc \notin {"idle", "collected"}

\* C7: after a pass in which every step completed, the binaries and datas the
\* pass accumulated are stored once in the AdditionalFilesCache under the
\* pass's module name, and binaries(name) and datas(name) return those sets.
C7_PassWritesOnce ==
    /\ InPass => files_n = pass0.n /\ AdditionalFilesCache_data = pass0.files
    /\ pc = "collected" =>
          /\ files_n = pass0.n + 1
          /\ name \in DOMAIN AdditionalFilesCache_data
          /\ CacheBinaries(AdditionalFilesCache_data, name) = binaries
          /\ CacheDatas(AdditionalFilesCache_data, name) = datas

\* a pass has completed with both accumulators filled, differently
C7_Witness ==
    /\ pc = "collected"
    /\ binaries # {}
    /\ datas # {}
    /\ binaries # datas

\* a glob of the datas attribute matches nothing
NoMatch == \E i \in DOMAIN module.datas : GlobMatches(module.datas[i][1]) = {}

\* a queued record does not carry the tag
BadTag(q, typecode) == \E k \in DOMAIN q : q[k][3] # typecode

\* C8: when a pass aborts on a data glob that matches nothing or on a malformed
\* record, the HooksCache and every entry of the AdditionalFilesCache are what
\* they were when the pass began, and the pass's module has no entry.
C8_FatalIsolated ==
    /\ (last.step = "datas" /\ NoMatch) => pc = "raised"
    /\ (last.step = "hook" /\ (BadTag(last.mod.added_binaries, "BINARY")
                               \/ BadTag(last.mod.datas, "DATA"))) => pc = "raised"
    /\ pc = "raised" =>
          /\ HooksCache_data = pass0.cache
          /\ AdditionalFilesCache_data = pass0.files
          /\ name \notin DOMAIN AdditionalFilesCache_data
          /\ files_n = pass0.n

\* a pass that had collected a binary aborted on a glob without a match, with
\* the entry of another module in the AdditionalFilesCache
C8_Witness ==
    /\ pc = "raised"
    /\ last.step = "datas"
    /\ binaries # {}
    /\ DOMAIN pass0.files # {}

\* the well-tagged records of q that stand before the first record without the tag
TaggedPrefix(q, typecode) ==
    {<<q[j][1], q[j][2]>> : j \in {k \in DOMAIN q : \A i \in 1..k : q[i][3] = typecode}}

\* C9: a record queued by add_binary without the BINARY tag, or by add_data
\* without the DATA tag, makes the pass fail, and neither that record nor any
\* record after it reaches the binaries or datas of the pass.
C9_MalformedFatal ==
    last.step = "hook" =>
        /\ (BadTag(last.mod.added_binaries, "BINARY") \/ BadTag(last.mod.datas, "DATA"))
              <=> pc = "raised"
        /\ binaries = TaggedPrefix(last.mod.added_binaries, "BINARY")
        /\ datas = IF BadTag(last.mod.added_binaries, "BINARY") THEN {}
                   ELSE TaggedPrefix(last.mod.datas, "DATA")

\* the pass failed on a malformed binary record that stood after a good one
C9_Witness ==
    /\ last.step = "hook"
    /\ pc = "raised"
    /\ BadTag(last.mod.added_binaries, "BINARY")
    /\ binaries # {}

(***************************************************************************)
(* The queues of the FakeModule                                            *)
(***************************************************************************)
\* the FakeModule as hook(mod) left it: mod while the hook runs, last.mod once
\* _process_hook_function has gone through its queues
QueuedMod == IF InHook THEN mod ELSE last.mod
HasQueues == InHook \/ last.step = "hook"

\* C13: the names queued by del_import are exactly names that add_import did not
\* queue: a name the hook both added and removed is not in the queue of removed
\* imports that _process_hook_function goes through.
C13_ProxyDeltaIsolation ==
    HasQueues =>
        \A i \in DOMAIN QueuedMod.deleted_imports :
            \A j \in DOMAIN QueuedMod.added_imports :
                QueuedMod.deleted_imports[i] # QueuedMod.added_imports[j]

(***************************************************************************)
(* The records of _format_hook_datas                                       *)
(***************************************************************************)
DatasReturned == last.step = "datas" /\ pc # "raised"

\* C14: for a pair with an empty target directory, every record of a file under
\* a matched directory D has a target that begins with basename(D) followed by
\* the separator, for each matched directory on its own.
C14_DirectoryDefaultTarget ==
    DatasReturned =>
        \A i \in DOMAIN module.datas :
            module.datas[i][2] = <<>> =>
                \A k \in DOMAIN last.globbed[i] :
                    LET D == last.globbed[i][k]
                    IN  IsDir(D) =>
                            \A r \in DOMAIN last.emitted[i] :
                                StartsWith(last.emitted[i][r][2], D) =>
                                    /\ Len(last.emitted[i][r][1]) > 1
                                    /\ last.emitted[i][r][1][1] = Basename(D)

\* C15: a matched plain file F gives exactly one record, and that record is
\* (join(target directory of the pair, basename(F)), F), whatever the same
\* source matched before F.
C15_FileCase ==
    DatasReturned =>
        \A i \in DOMAIN module.datas :
            \A k \in DOMAIN last.globbed[i] :
                LET F == last.globbed[i][k]
                    recs == {r \in DOMAIN last.emitted[i] : last.emitted[i][r][2] = F}
                IN  IsFile(F) =>
                        /\ Cardinality(recs) = 1
                        /\ \A r \in recs :
                              last.emitted[i][r] =
                                  <<Join(module.datas[i][2], <<Basename(F)>>), F>>

\* C16: when a source of the datas list matches nothing, FileNotFoundError
\* leaves the step and no record reaches ImportHook.datas, also none of the
\* pairs that stand before the failing one.
C16_NoMatchFatal ==
    (last.step = "datas" /\ NoMatch) =>
        /\ pc = "raised"
        /\ datas = last.datas

\* the first pair matched a file, the second matched nothing
C16_Witness ==
    /\ last.step = "datas"
    /\ Len(module.datas) = 2
    /\ GlobMatches(module.datas[1][1]) # {}
    /\ GlobMatches(module.datas[2][1]) = {}
    /\ last.emitted[1] # <<>>
    /\ datas # {}

(***************************************************************************)
(* The order of the steps of a pass                                        *)
(***************************************************************************)
\* the place of each position in the order the pass is to keep
Rank(p) ==
    CASE p = "idle" -> 0
      [] p = "hook" -> 1
      [] p = "hiddenimports" -> 2
      [] p = "excludedimports" -> 3
      [] p = "datas" -> 4
      [] p = "binaries" -> 5
      [] p = "attrs" -> 6
      [] p = "returned" -> 7
      [] p = "collected" -> 8
      [] p = "raised" -> 9

\* the position that follows p
Successor(p) == CHOOSE q \in {"hiddenimports", "excludedimports", "datas", "binaries",
                               "attrs", "returned"} : Rank(q) = Rank(p) + 1

\* the record l of the last action says that the step of attribute a acted
StepOf(l, a) == l.step = a \/ (l.step = "end_of_list" /\ l.attr = a)

\* C17: the steps of a pass run in the order hook(mod), hiddenimports,
\* excludedimports, datas, binaries, attrs; a step runs exactly when the hook
\* module has its attribute; hook(mod) is entered once, before anything else of
\* the pass has touched the graph; the attrs step changes neither the graph nor
\* binaries nor datas.
C17_FixedStepOrder ==
    [][/\ pc' # pc => (pc' = "raised" \/ Rank(pc') = Rank(pc) + 1)
       /\ \A a \in Attributes :
             /\ StepOf(last', a) /\ last' # last => (pc = a /\ a \in DOMAIN module)
             /\ (pc = a /\ a \in DOMAIN module /\ pc' # pc) =>
                    (StepOf(last', a) /\ pc' \in {Successor(a), "raised"})
             /\ (pc = a /\ a \notin DOMAIN module /\ pc' # pc) =>
                    /\ last'.step = "hasattr_false"
                    /\ UNCHANGED <<nodes, edges, nodeinfo, binaries, datas>>
       /\ (last'.step = "hasattr_true" /\ last'.attr = "hook" /\ last' # last) =>
             (last.step = "init" /\ nodes = last.nodes /\ edges = last.edges)
       /\ last'.step = "attrs" => UNCHANGED <<nodes, edges, nodeinfo, binaries, datas>>
      ]_vars

\* a pass went through every step and has binaries and datas to show for it
C17_Witness ==
    /\ pc = "returned"
    /\ last.step = "attrs"
    /\ binaries # {}
    /\ datas # {}

(***************************************************************************)
(* What hook(mod) does to the graph while it runs                          *)
(***************************************************************************)
\* C18: add_import, del_import, add_binary and add_data change no node and no
\* reference of the graph; while hook(mod) runs only retarget changes the graph,
\* and it changes the code and filename of the FakeModule's node and adds the
\* references the scan of the new code gives that node; everything else waits
\* for _process_hook_function.
C18_DeltasDeferred ==
    [][/\ last'.step \in {"add_import", "del_import", "add_binary", "add_data"}
             => UNCHANGED <<nodes, edges, nodeinfo>>
       /\ (InHook /\ <<nodes, edges, nodeinfo>>' # <<nodes, edges, nodeinfo>>)
             => last'.step \in {"retarget", "hook"}
       /\ (last'.step = "retarget" /\ last' # last) =>
             /\ nodes \subseteq nodes'
             /\ edges \subseteq edges'
             /\ \A e \in edges' \ edges : e[1] = mod.node
             /\ \A n \in nodes' \ nodes : <<mod.node, n>> \in edges'
             /\ DOMAIN nodeinfo' = DOMAIN nodeinfo \cup {mod.node}
             /\ \A n \in DOMAIN nodeinfo \ {mod.node} : nodeinfo'[n] = nodeinfo[n]
             /\ nodeinfo'[mod.node].filename = last'.arg
      ]_vars

\* hook(mod) has added an import that the graph does not have yet, and has
\* retargeted its node
C18_Witness ==
    /\ InHook
    /\ \E i \in DOMAIN mod.added_imports : <<mod.node, mod.added_imports[i]>> \notin edges
    /\ mod.node \in DOMAIN nodeinfo

\* the entry add_import puts into mod.imports for a name
ImportEntry(n) == <<n, 1, 0, -1>>

\* C19: after add_import(names) every name is in mod.imports, once for the call,
\* and in the queue of added imports; after del_import(names) every name is in
\* the queue of removed imports and mod.imports is what it was before the call.
C19_AsymmetricVisibility ==
    /\ (InHook /\ last.step = "add_import") =>
          LET names == AsList(last.arg)
          IN  /\ Len(mod.imports) = Len(last.mod.imports) + Len(names)
              /\ \A k \in DOMAIN names :
                    /\ mod.imports[Len(last.mod.imports) + k] = ImportEntry(names[k])
                    /\ mod.added_imports[Len(last.mod.added_imports) + k] = names[k]
              /\ \A k \in DOMAIN last.mod.imports : mod.imports[k] = last.mod.imports[k]
              /\ Len(mod.added_imports) = Len(last.mod.added_imports) + Len(names)
              /\ mod.deleted_imports = last.mod.deleted_imports
    /\ (InHook /\ last.step = "del_import") =>
          LET names == AsList(last.arg)
          IN  /\ mod.imports = last.mod.imports
              /\ mod.added_imports = last.mod.added_imports
              /\ Len(mod.deleted_imports) = Len(last.mod.deleted_imports) + Len(names)
              /\ \A k \in DOMAIN names :
                    mod.deleted_imports[Len(last.mod.deleted_imports) + k] = names[k]

\* del_import has just queued a name that mod.imports lists
C19_Witness ==
    /\ InHook
    /\ last.step = "del_import"
    /\ \E i \in DOMAIN mod.deleted_imports :
          \E k \in DOMAIN mod.imports : mod.imports[k][1] = mod.deleted_imports[i]

(***************************************************************************)
(* What a failed pass leaves in the graph                                   *)
(***************************************************************************)
\* the references _process_hook_function is to add for the queue of added imports
Replayed(m) == {<<m.node, m.added_imports[i]>> : i \in DOMAIN m.added_imports}

\* C20 as stated: when the hook step has changed the graph and the pass fails
\* later, the graph after the failure has every reference the hook step added
\* and lacks every reference it removed, and the retargeted node is as retarget
\* left it; when the failure is inside the hook step, the added imports have
\* been replayed.
C20_NoRollback_AsStated ==
    pc = "raised" =>
        /\ pass0.injected \subseteq edges
        /\ pass0.removed \cap edges = {}
        /\ nodeinfo = pass0.info
        /\ last.step = "hook" => Replayed(last.mod) \subseteq edges

\* C20 amended: the failure itself undoes nothing. The graph after the failure
\* is the graph the failing step found; a reference the hook step added is there
\* unless the excluded-imports step of the same pass removed it, a reference the
\* hook step removed is absent unless the hidden-imports step of the same pass
\* added it again; when the failure is inside the hook step every added import
\* has been replayed and no removed import has been applied.
C20_NoRollback ==
    pc = "raised" =>
        /\ pass0.injected \ pass0.pruned \subseteq edges
        /\ (pass0.removed \ pass0.hidden) \cap edges = {}
        /\ nodeinfo = pass0.info
        /\ last.step = "datas" => Graph = PreGraph
        /\ last.step = "hook" =>
              /\ edges = last.edges \cup Replayed(last.mod)
              /\ nodes = last.nodes \cup {e[2] : e \in Replayed(last.mod)}

\* the datas step failed after the hook step had added a reference, removed
\* another and retargeted its node
C20_Witness ==
    /\ pc = "raised"
    /\ last.step = "datas"
    /\ pass0.injected # {}
    /\ pass0.removed # {}
    /\ pass0.injected \subseteq edges
    /\ pass0.removed \cap edges = {}

\* C21: while the excluded-imports step processes one excluded name E, the
\* removal of the reference (referer, E) is requested at most once for every
\* referer of E, also when the referer's identifier starts with more than one
\* of the names in [hooked module] + excludedimports; so no removal is
\* requested for a reference that has already been removed.
C21_SingleEdgeRemoval ==
    (last.step = "excludedimports" /\ last.item \in last.nodes) =>
        \A r \in DOMAIN last.requests : last.requests[r] <= 1

====
